---- MODULE Spec2Model ----
(***************************************************************************)
(* The per-page list of tracked objects of src/btree/rec_track.c:          *)
(* __wt_rec_track, __wt_rec_track_ovfl_active, __wt_rec_track_ovfl_reset   *)
(* and __wt_rec_discard_track, acting on one page's WT_PAGE_MODIFY         *)
(* (track, track_next, track_entries), together with the block manager's   *)
(* record of the blocks it released.                                       *)
(***************************************************************************)
EXTENDS Integers, Sequences, FiniteSets

\* Largest number of used slots (track_next) the model explores.
MaxTrack == 3
\* The slots used by the caller that fills the list past its first chunk.
MaxGrow == 21
\* The slots used by the writer of the specification with fairness.
MaxLive == 2

\* ------------------------------------------------------------------------
\* Values of the source.

WT_PT_EMPTY == "WT_PT_EMPTY"
WT_PT_BLOCK == "WT_PT_BLOCK"
WT_PT_OVFL == "WT_PT_OVFL"
WT_PT_OVFL_DISCARD == "WT_PT_OVFL_DISCARD"

\* NULL, as a reference value.
NULL == 0
\* WT_ADDR_INVALID is UINT32_MAX in the source: a value no block address has.
WT_ADDR_INVALID == -1
\* A chunk of half the size.
TrackChunkHalf == 20 \div 2

\* The list grows by this many slots when it is full.
TrackChunk == 20
\* __wt_realloc's error return when the allocation fails.
ENOMEM == 12
\* A failing __wt_block_free's error return.
EIO == 5

\* The references, addresses and sizes the callers pass in.
Refs == {1}
Addrs == {1, 2}
Sizes == {1}
TrackTypes == {WT_PT_BLOCK, WT_PT_OVFL, WT_PT_OVFL_DISCARD}
GrowAddrs == 1..MaxGrow
Locs == (Addrs \cup GrowAddrs) \X Sizes

\* A slot as __wt_rec_discard_track leaves it.
EmptyEntry ==
    [type |-> WT_PT_EMPTY, ref |-> NULL, addr |-> WT_ADDR_INVALID, size |-> 0]

Entry(type, ref, addr, size) ==
    [type |-> type, ref |-> ref, addr |-> addr, size |-> size]

\* The tracked objects: a block, or the overflow item of a reference.
NoOwner == <<"none", NULL>>
Object(type, ref) ==
    <<IF type = WT_PT_BLOCK THEN "block" ELSE "overflow", ref>>

VARIABLES
    track,          \* mod->track[0 .. track_next-1], as a sequence
    track_next,     \* mod->track_next: the number of used slots
    track_entries,  \* mod->track_entries: the number of allocated slots
    freeCount,      \* block manager: successful frees of each (addr, size)
    callFreed,      \* the __wt_block_free calls of the last operation, in order
    op,             \* the last operation called
    arg,            \* its arguments
    ret,            \* its return value
    addrp,          \* *addrp of the last call (WT_ADDR_INVALID: not written)
    sizep,          \* *sizep of the last call (0: not written)
    fatal,          \* WT_ASSERT failed
    phase,          \* caller: "idle" between passes, "pass" inside one
    handled,        \* caller: references passed to ovfl_active in this pass
    reused,         \* caller: references ovfl_active found in this pass
    proto,          \* caller: the calls so far followed the writer's protocol
    owner,          \* block manager: the object each (addr, size) was handed to
    aliased         \* block manager: some (addr, size) was tracked for two objects

list == <<track, track_next, track_entries>>
caller == <<phase, handled, reused, proto>>
vars == <<track, track_next, track_entries, freeCount, callFreed, op, arg, ret,
          addrp, sizep, fatal, phase, handled, reused, proto, owner, aliased>>

Init ==
    /\ track = <<>>
    /\ track_next = 0
    /\ track_entries = 0
    /\ freeCount = [l \in Locs |-> 0]
    /\ callFreed = <<>>
    /\ op = "none"
    /\ arg = EmptyEntry
    /\ ret = 0
    /\ addrp = WT_ADDR_INVALID
    /\ sizep = 0
    /\ fatal = FALSE
    /\ phase = "idle"
    /\ handled = {}
    /\ reused = {}
    /\ proto = TRUE
    /\ owner = [l \in Locs |-> NoOwner]
    /\ aliased = FALSE

\* ------------------------------------------------------------------------
\* __wt_rec_track

\* A duplicate check whose loop stops one slot early.
TrackDuplicateShort(type, ref, addr, size) ==
    \E i \in 1..(track_next - 1) :
        /\ track[i].type = type
        /\ track[i].ref = ref
        /\ track[i].addr = addr
        /\ track[i].size = size

\* The loop of lines 45-48: is the tuple already in the list?
TrackDuplicate(type, ref, addr, size) ==
    \E i \in 1..track_next :
        /\ track[i].type = type
        /\ track[i].ref = ref
        /\ track[i].addr = addr
        /\ track[i].size = size

\* Lines 67-71: the new item goes into slot track_next.
\* An append that takes the first empty slot when there is one.
TrackAppendReuse(type, ref, addr, size) ==
    LET E == {i \in 1..track_next : track[i].type = WT_PT_EMPTY} IN
    IF E = {}
    THEN /\ track' = Append(track, Entry(type, ref, addr, size))
         /\ track_next' = track_next + 1
    ELSE /\ track' = [track EXCEPT ![CHOOSE j \in E : \A k \in E : j <= k] =
                                       Entry(type, ref, addr, size)]
         /\ UNCHANGED track_next

TrackAppend(type, ref, addr, size) ==
    /\ track' = Append(track, Entry(type, ref, addr, size))
    /\ track_next' = track_next + 1

\* An allocation failure noticed after track_entries was raised.
TrackAllocFailLate ==
    /\ ret' = ENOMEM
    /\ track_entries' = track_entries + TrackChunk
    /\ UNCHANGED <<track, track_next>>

\* Lines 62-64: __wt_realloc fails and WT_RET returns its error.
TrackAllocFail ==
    /\ ret' = ENOMEM
    /\ UNCHANGED list

wt_rec_track(type, ref, addr, size) ==
    /\ ~fatal
    /\ op' = "track"
    /\ arg' = Entry(type, ref, addr, size)
    /\ callFreed' = <<>>
    /\ addrp' = WT_ADDR_INVALID
    /\ sizep' = 0
    /\ UNCHANGED <<freeCount, fatal>>
    /\ IF TrackDuplicate(type, ref, addr, size)
       THEN /\ ret' = 0
            /\ UNCHANGED list
       ELSE IF track_next = track_entries
       THEN \E allocated \in BOOLEAN :
               IF allocated
               THEN /\ track_entries' = track_entries + TrackChunk
                    /\ TrackAppend(type, ref, addr, size)
                    /\ ret' = 0
               ELSE TrackAllocFail
       ELSE /\ TrackAppend(type, ref, addr, size)
            /\ ret' = 0
            /\ UNCHANGED track_entries

\* The model stops adding slots at the bound; a duplicate adds none.
TrackInBound(type, ref, addr, size, bound) ==
    TrackDuplicate(type, ref, addr, size) \/ track_next < bound

\* ------------------------------------------------------------------------
\* __wt_rec_track_ovfl_active

\* The loop of lines 132-134: the first used slot whose ref is orig_data,
\* 0 when there is none.
RECURSIVE OvflSearch(_, _)
\* A search whose loop stops one slot early.
OvflSearchShort(i, orig_data) ==
    IF i > track_next - 1 THEN 0
    ELSE IF track[i].ref # orig_data THEN OvflSearch(i + 1, orig_data)
    ELSE i

\* A search whose test of line 133 is inverted.
OvflSearchInverted(i, orig_data) ==
    IF i > track_next THEN 0
    ELSE IF track[i].ref = orig_data THEN OvflSearch(i + 1, orig_data)
    ELSE i

OvflSearch(i, orig_data) ==
    IF i > track_next THEN 0
    ELSE IF track[i].ref # orig_data THEN OvflSearch(i + 1, orig_data)
    ELSE i

\* An assertion that also accepts an active overflow item.
OvflAssertionLoose(i) ==
    track[i].type \in {WT_PT_OVFL_DISCARD, WT_PT_OVFL}

\* An assertion that only rules out an empty slot.
OvflAssertionAnyItem(i) == track[i].type # WT_PT_EMPTY

\* The condition of the WT_ASSERT of line 140.
OvflAssertion(i) == track[i].type = WT_PT_OVFL_DISCARD

\* A loop without the return of line 149: it goes on to the later slots
\* with the same ref.
OvflFlipAll(t, i) ==
    [j \in 1..Len(t) |->
        IF j >= i /\ t[j].ref = t[i].ref
        THEN [t[j] EXCEPT !.type = WT_PT_OVFL] ELSE t[j]]

\* Line 141: the slot found becomes active.
OvflFlip(t, i) == [t EXCEPT ![i].type = WT_PT_OVFL]

\* A failed WT_ASSERT is fatal: the function does not return.
AssertFailure ==
    /\ fatal' = TRUE
    /\ addrp' = WT_ADDR_INVALID
    /\ sizep' = 0
    /\ UNCHANGED <<track, track_next, track_entries, ret>>

wt_rec_track_ovfl_active(orig_data) ==
    /\ ~fatal
    /\ op' = "ovfl_active"
    /\ arg' = Entry(WT_PT_EMPTY, orig_data, WT_ADDR_INVALID, 0)
    /\ callFreed' = <<>>
    /\ UNCHANGED freeCount
    /\ LET i == IF orig_data = NULL THEN 0 ELSE OvflSearch(1, orig_data) IN
       IF i = 0
       THEN /\ ret' = 0
            /\ addrp' = WT_ADDR_INVALID
            /\ sizep' = 0
            /\ UNCHANGED <<list, fatal>>
       ELSE IF ~OvflAssertion(i)
       THEN AssertFailure
       ELSE /\ track' = OvflFlip(track, i)
            /\ addrp' = track[i].addr
            /\ sizep' = track[i].size
            /\ ret' = 1
            /\ UNCHANGED <<track_next, track_entries, fatal>>

\* ------------------------------------------------------------------------
\* __wt_rec_track_ovfl_reset

\* A reset that tests for the wrong type, and so changes nothing.
ResetSlotWrongType(t) ==
    IF t.type = WT_PT_OVFL_DISCARD
    THEN [t EXCEPT !.type = WT_PT_OVFL_DISCARD] ELSE t

\* Lines 173-174, for one slot.
ResetSlot(t) ==
    IF t.type = WT_PT_OVFL THEN [t EXCEPT !.type = WT_PT_OVFL_DISCARD] ELSE t

RECURSIVE ResetLoop(_, _)
ResetLoop(i, t) ==
    IF i > track_next THEN t
    ELSE ResetLoop(i + 1, [t EXCEPT ![i] = ResetSlot(t[i])])

\* A reset that hands the first item it discards to __wt_block_free.
ResetAndFree ==
    /\ ~fatal
    /\ op' = "ovfl_reset"
    /\ arg' = EmptyEntry
    /\ ret' = 0
    /\ track' = ResetLoop(1, track)
    /\ LET S == {i \in 1..track_next : track[i].type = WT_PT_OVFL} IN
       IF S = {}
       THEN /\ callFreed' = <<>>
            /\ UNCHANGED freeCount
       ELSE LET i == CHOOSE j \in S : \A k \in S : j <= k IN
            /\ callFreed' = <<[idx |-> i, addr |-> track[i].addr,
                               size |-> track[i].size, ok |-> TRUE]>>
            /\ freeCount' = [freeCount EXCEPT
                                ![<<track[i].addr, track[i].size>>] = @ + 1]
    /\ addrp' = WT_ADDR_INVALID
    /\ sizep' = 0
    /\ UNCHANGED <<track_next, track_entries, fatal>>

wt_rec_track_ovfl_reset ==
    /\ ~fatal
    /\ op' = "ovfl_reset"
    /\ arg' = EmptyEntry
    /\ ret' = 0
    /\ callFreed' = <<>>
    /\ track' = ResetLoop(1, track)
    /\ addrp' = WT_ADDR_INVALID
    /\ sizep' = 0
    /\ UNCHANGED <<track_next, track_entries, freeCount, fatal>>

\* ------------------------------------------------------------------------
\* __wt_rec_discard_track

\* A switch that lets WT_PT_OVFL fall through to the free as well.
DiscardFreesActive(type) == type # WT_PT_EMPTY

\* A switch whose WT_PT_BLOCK case skips the free.
DiscardFreesNoBlock(type) == type = WT_PT_OVFL_DISCARD

\* A switch without the WT_PT_EMPTY case.
DiscardFreesEmpty(type) == type # WT_PT_OVFL

\* The switch of lines 193-211: the types that go on to __wt_block_free.
DiscardFrees(type) == type \in {WT_PT_BLOCK, WT_PT_OVFL_DISCARD}

FreeCall(i, t, ok) ==
    [idx |-> i, addr |-> t[i].addr, size |-> t[i].size, ok |-> ok]

\* An error return that comes after the slot was reset.
DiscardErrorAfterReset(i, t, calls) ==
    [track |-> [t EXCEPT ![i] = EmptyEntry],
     calls |-> Append(calls, FreeCall(i, t, FALSE)), ret |-> EIO]

\* Line 212, __wt_block_free failing at slot i: WT_RET returns the error
\* before the slot is touched.
DiscardError(i, t, calls) ==
    [track |-> t, calls |-> Append(calls, FreeCall(i, t, FALSE)), ret |-> EIO]

\* The loop of lines 191-218.  failAt is the slot at which __wt_block_free
\* fails (0: it never fails); the result is the list, the calls made and the
\* return value.
RECURSIVE DiscardLoop(_, _, _, _)
DiscardLoop(i, t, calls, failAt) ==
    IF i > track_next THEN [track |-> t, calls |-> calls, ret |-> 0]
    ELSE IF ~DiscardFrees(t[i].type)
    THEN DiscardLoop(i + 1, t, calls, failAt)
    ELSE IF i = failAt
    THEN DiscardError(i, t, calls)
    ELSE DiscardLoop(i + 1, [t EXCEPT ![i] = EmptyEntry],
                     Append(calls, FreeCall(i, t, TRUE)), failAt)

\* The block manager: how often it released (addr, size) in these calls.
Released(calls, l) ==
    Cardinality({k \in 1..Len(calls) :
        calls[k].ok /\ <<calls[k].addr, calls[k].size>> = l})

wt_rec_discard_track ==
    /\ ~fatal
    /\ \E failAt \in {0} \cup {i \in 1..track_next : DiscardFrees(track[i].type)} :
          LET r == DiscardLoop(1, track, <<>>, failAt) IN
          /\ track' = r.track
          /\ callFreed' = r.calls
          /\ ret' = r.ret
          /\ freeCount' = [l \in Locs |-> freeCount[l] + Released(r.calls, l)]
    /\ op' = "discard_track"
    /\ arg' = EmptyEntry
    /\ addrp' = WT_ADDR_INVALID
    /\ sizep' = 0
    /\ UNCHANGED <<track_next, track_entries, fatal>>

\* ------------------------------------------------------------------------
\* The block manager hands an (addr, size) to one object and, in this model,
\* never allocates it again after a free.  aliased records that the callers
\* tracked one (addr, size) for two different objects.

BlockOwner(type, ref, addr, size) ==
    LET l == <<addr, size>> IN
    IF aliased \/ owner[l] \notin {NoOwner, Object(type, ref)}
    THEN /\ aliased' = TRUE
         /\ owner' = [k \in Locs |-> NoOwner]
    ELSE /\ aliased' = FALSE
         /\ owner' = [owner EXCEPT ![l] = Object(type, ref)]

\* ------------------------------------------------------------------------
\* Any caller: the four functions in any order, with any arguments.

Track ==
    /\ \E type \in TrackTypes, ref \in Refs \cup {NULL},
          addr \in Addrs, size \in Sizes :
          /\ TrackInBound(type, ref, addr, size, MaxTrack)
          /\ wt_rec_track(type, ref, addr, size)
          /\ BlockOwner(type, ref, addr, size)
    /\ UNCHANGED caller

OvflActive ==
    /\ \E orig_data \in Refs \cup {NULL} : wt_rec_track_ovfl_active(orig_data)
    /\ UNCHANGED <<caller, owner, aliased>>

OvflReset ==
    /\ wt_rec_track_ovfl_reset
    /\ UNCHANGED <<caller, owner, aliased>>

DiscardTrack ==
    /\ wt_rec_discard_track
    /\ UNCHANGED <<caller, owner, aliased>>

Next == Track \/ OvflActive \/ OvflReset \/ DiscardTrack

Spec == Init /\ [][Next]_vars

\* ------------------------------------------------------------------------
\* The reconciliation writer as the caller: its calls come in passes, one
\* ovfl_reset, then track and ovfl_active calls, then discard_track (again
\* after a failed one).  proto records whether the writer also kept to its
\* protocol: a reference is passed to ovfl_active at most once in a pass, and
\* an object with a reference is tracked only right after ovfl_active did
\* not find that reference, and never as a plain block.

CallerStep(inProto, nextPhase, h, r) ==
    /\ proto' = (proto /\ inProto)
    /\ phase' = nextPhase
    /\ handled' = IF proto /\ inProto THEN h ELSE {}
    /\ reused' = IF proto /\ inProto THEN r ELSE {}

TrackInProto(type, ref) ==
    \/ ref = NULL
    \/ /\ type # WT_PT_BLOCK
       /\ op = "ovfl_active" /\ arg.ref = ref /\ ret = 0

PassTrack ==
    /\ phase = "pass"
    /\ \E type \in TrackTypes, ref \in Refs \cup {NULL},
          addr \in Addrs, size \in Sizes :
          /\ TrackInBound(type, ref, addr, size, MaxTrack)
          /\ wt_rec_track(type, ref, addr, size)
          /\ BlockOwner(type, ref, addr, size)
          /\ CallerStep(TrackInProto(type, ref), "pass", handled, reused)

PassOvflActive ==
    /\ phase = "pass"
    /\ \E orig_data \in Refs \cup {NULL} :
          /\ wt_rec_track_ovfl_active(orig_data)
          /\ UNCHANGED <<owner, aliased>>
          /\ IF orig_data = NULL
             THEN CallerStep(TRUE, "pass", handled, reused)
             ELSE CallerStep(orig_data \notin handled, "pass",
                             handled \cup {orig_data},
                             IF ret' = 1 /\ ~fatal' THEN reused \cup {orig_data}
                             ELSE reused)

PassOvflReset ==
    /\ phase = "idle"
    /\ wt_rec_track_ovfl_reset
    /\ UNCHANGED <<owner, aliased>>
    /\ CallerStep(TRUE, "pass", {}, {})

PassDiscardTrack ==
    /\ phase = "pass"
    /\ wt_rec_discard_track
    /\ UNCHANGED <<owner, aliased>>
    /\ CallerStep(TRUE, IF ret' = 0 THEN "idle" ELSE "pass", handled, reused)

PassNext == PassTrack \/ PassOvflActive \/ PassOvflReset \/ PassDiscardTrack

PassSpec == Init /\ [][PassNext]_vars

\* The writer keeps running passes and __wt_block_free does not fail for
\* ever: between passes a reset is eventually made, and inside a pass a
\* discard_track in which every free succeeds eventually ends it.
PassDiscardDone == PassDiscardTrack /\ ret' = 0

LiveTrack == PassTrack /\ track_next' <= MaxLive

LiveNext == LiveTrack \/ PassOvflActive \/ PassOvflReset \/ PassDiscardTrack

LiveSpec ==
    /\ Init
    /\ [][LiveNext]_vars
    /\ WF_vars(PassOvflReset)
    /\ WF_vars(PassDiscardDone)

\* ------------------------------------------------------------------------
\* A caller that fills the list: it tracks blocks only, each at an address
\* the block manager has not handed out before (the next one in order) or
\* at the address of a block the list still holds, and calls the other three
\* functions in any order.

GrowTrack ==
    /\ \E addr \in {a \in GrowAddrs :
                       \/ a = track_next + 1
                       \/ \E i \in 1..track_next : track[i].addr = a} :
          /\ TrackInBound(WT_PT_BLOCK, NULL, addr, 1, MaxGrow)
          /\ wt_rec_track(WT_PT_BLOCK, NULL, addr, 1)
          /\ BlockOwner(WT_PT_BLOCK, NULL, addr, 1)
    /\ UNCHANGED caller

GrowNext == GrowTrack \/ OvflActive \/ OvflReset \/ DiscardTrack

GrowSpec == Init /\ [][GrowNext]_vars

\* ------------------------------------------------------------------------
\* Properties.

\* The __wt_block_free calls of the last operation made for slot i.
CallsFor(calls, i) == {k \in 1..Len(calls) : calls[k].idx = i}

\* C1: a discard_track in which every free succeeds returns 0; each slot
\* that was WT_PT_BLOCK or WT_PT_OVFL_DISCARD is freed exactly once, with its
\* addr and size, and reset to the empty slot; each WT_PT_OVFL slot and each
\* WT_PT_EMPTY slot is unchanged and not freed; afterwards every slot is
\* WT_PT_EMPTY or WT_PT_OVFL.
ResolveSuccess ==
    [][(op' = "discard_track" /\ \A k \in 1..Len(callFreed') : callFreed'[k].ok)
        => /\ ret' = 0
           /\ track_next' = track_next
           /\ \A i \in 1..track_next :
                 IF track[i].type \in {WT_PT_BLOCK, WT_PT_OVFL_DISCARD}
                 THEN /\ Cardinality(CallsFor(callFreed', i)) = 1
                      /\ \A k \in CallsFor(callFreed', i) :
                            /\ callFreed'[k].addr = track[i].addr
                            /\ callFreed'[k].size = track[i].size
                      /\ track'[i].type = WT_PT_EMPTY
                      /\ track'[i].ref = NULL
                      /\ track'[i].addr = WT_ADDR_INVALID
                      /\ track'[i].size = 0
                 ELSE /\ CallsFor(callFreed', i) = {}
                      /\ track'[i] = track[i]
           /\ \A i \in 1..track_next :
                 track'[i].type \in {WT_PT_EMPTY, WT_PT_OVFL}]_vars

\* C1 witness: a successful discard_track has freed a slot, skipped a slot
\* that was empty before and kept an active overflow slot.
ResolveSuccessWitness ==
    /\ op = "discard_track"
    /\ ret = 0
    /\ Len(callFreed) >= 1
    /\ \E i \in 1..track_next : track[i].type = WT_PT_OVFL
    /\ \E i \in 1..track_next :
          track[i].type = WT_PT_EMPTY /\ CallsFor(callFreed, i) = {}

\* C2: as long as no (addr, size) is handed out twice, the block manager
\* never releases the same (addr, size) twice, whatever the sequence of
\* track, ovfl_reset, ovfl_active and discard_track calls.
NeverFreedTwice == ~aliased => \A l \in Locs : freeCount[l] <= 1

\* The first slot of t whose ref is r, 0 when there is none.
RefSlots(t, r) == {i \in 1..Len(t) : t[i].ref = r}
FirstWithRef(t, r) ==
    IF RefSlots(t, r) = {} THEN 0
    ELSE CHOOSE i \in RefSlots(t, r) : \A j \in RefSlots(t, r) : i <= j

\* C3 (amended): in a pass, ovfl_reset turns every WT_PT_OVFL slot into
\* WT_PT_OVFL_DISCARD; an ovfl_active(R) that follows the reset and whose
\* first slot with ref R is WT_PT_OVFL_DISCARD returns 1 with that slot's
\* addr and size and makes the slot WT_PT_OVFL again, changing nothing else
\* of it; a discard_track that follows does not free that slot and leaves it
\* unchanged.
RoundTrip ==
    [][/\ op' = "ovfl_reset" =>
             \A i \in 1..track_next :
                track[i].type = WT_PT_OVFL =>
                   track'[i] = [track[i] EXCEPT !.type = WT_PT_OVFL_DISCARD]
       /\ (op = "ovfl_reset" /\ op' = "ovfl_active" /\ arg'.ref # NULL) =>
             LET i == FirstWithRef(track, arg'.ref) IN
             (i # 0 /\ track[i].type = WT_PT_OVFL_DISCARD) =>
                /\ ~fatal'
                /\ ret' = 1
                /\ addrp' = track[i].addr
                /\ sizep' = track[i].size
                /\ track'[i] = [track[i] EXCEPT !.type = WT_PT_OVFL]
       /\ (op = "ovfl_active" /\ ret = 1 /\ ~fatal /\ op' = "discard_track") =>
             LET i == FirstWithRef(track, arg.ref) IN
             /\ track[i].type = WT_PT_OVFL
             /\ track'[i] = track[i]
             /\ CallsFor(callFreed', i) = {}]_vars

\* C3 witness: a pass ended in which reference 1 was found by ovfl_active
\* and its slot is active after a discard_track that freed something else.
RoundTripWitness ==
    /\ proto
    /\ op = "discard_track"
    /\ ret = 0
    /\ 1 \in reused
    /\ track[FirstWithRef(track, 1)].type = WT_PT_OVFL
    /\ Len(callFreed) >= 1

\* C3 as claimed: after a reset, ovfl_active(R) returns the addr and size of
\* every discarded slot with ref R, and makes each of them active.
RoundTripAnyEntry ==
    [][(op = "ovfl_reset" /\ op' = "ovfl_active" /\ arg'.ref # NULL) =>
          \A i \in 1..track_next :
             (track[i].ref = arg'.ref /\ track[i].type = WT_PT_OVFL_DISCARD) =>
                /\ ret' = 1
                /\ addrp' = track[i].addr
                /\ sizep' = track[i].size
                /\ track'[i].type = WT_PT_OVFL]_vars

\* C4 (amended): discard_track never calls __wt_block_free for a slot that
\* is WT_PT_OVFL when the loop reaches it, and every slot that is WT_PT_OVFL
\* after the call is unchanged by it.
NoActiveEntryFreed ==
    [][op' = "discard_track" =>
          /\ \A k \in 1..Len(callFreed') :
                /\ callFreed'[k].idx \in 1..track_next
                /\ track[callFreed'[k].idx].type # WT_PT_OVFL
          /\ \A i \in 1..track_next :
                track'[i].type = WT_PT_OVFL =>
                   /\ track'[i] = track[i]
                   /\ CallsFor(callFreed', i) = {}]_vars

\* C4 witness: a discard_track kept the active overflow item of reference 1
\* while it freed another slot.
NoActiveEntryFreedWitness ==
    /\ op = "discard_track"
    /\ Len(callFreed) >= 1
    /\ \E i \in 1..track_next :
          /\ track[i].type = WT_PT_OVFL
          /\ track[i].ref = 1
          /\ CallsFor(callFreed, i) = {}

\* C4 as claimed: discard_track never calls __wt_block_free with an
\* (addr, size) that a WT_PT_OVFL slot of the list holds when it returns
\* (checked for the callers that track no (addr, size) for two objects).
NoLiveLocationFreed ==
    (~aliased /\ op = "discard_track") =>
       \A k \in 1..Len(callFreed), i \in 1..track_next :
          ~(/\ track[i].type = WT_PT_OVFL
            /\ track[i].addr = callFreed[k].addr
            /\ track[i].size = callFreed[k].size)

\* C5 as claimed (I1): no two slots hold the same (type, ref, addr, size).
NoIdenticalEntries ==
    \A i, j \in 1..track_next : i # j => track[i] # track[j]

\* C5 (amended): no two WT_PT_BLOCK slots hold the same
\* (type, ref, addr, size).
NoIdenticalBlocks ==
    \A i, j \in 1..track_next :
       (i # j /\ track[i].type = WT_PT_BLOCK /\ track[j].type = WT_PT_BLOCK)
          => track[i] # track[j]

\* C5 witness: the list holds two blocks and a track call for one of them
\* has just been turned away as a duplicate.
NoIdenticalBlocksWitness ==
    /\ op = "track"
    /\ ret = 0
    /\ arg.type = WT_PT_BLOCK
    /\ track[track_next] # arg
    /\ Cardinality({i \in 1..track_next : track[i].type = WT_PT_BLOCK}) >= 2

\* How often the tuple e is in the list t.
Count(t, e) == Cardinality({i \in 1..Len(t) : t[i] = e})

\* C6: a track call with a tuple that is already in the list returns 0 and
\* changes neither the slots, nor track_next, nor track_entries; a
\* successful track call leaves the tuple in the list once if it was not
\* there, and as often as before otherwise.
IdempotentTrack ==
    [][op' = "track" =>
          /\ Count(track, arg') >= 1 =>
                /\ ret' = 0
                /\ track' = track
                /\ track_next' = track_next
                /\ track_entries' = track_entries
          /\ ret' = 0 =>
                Count(track', arg') =
                   IF Count(track, arg') = 0 THEN 1 ELSE Count(track, arg')]_vars

\* C6 witness: the tuple of the first of two slots was tracked again, and
\* the list still has two slots and the tuple once.
IdempotentTrackWitness ==
    /\ op = "track"
    /\ ret = 0
    /\ track_next = 2
    /\ track[1] = arg
    /\ Count(track, arg) = 1

\* The slots that hold an overflow item of reference r.
OvflSlots(r) ==
    {i \in 1..track_next :
        track[i].ref = r /\ track[i].type \in {WT_PT_OVFL, WT_PT_OVFL_DISCARD}}

\* C7 as claimed (I2): at most one slot of an overflow type per reference.
OneEntryPerReference == \A r \in Refs : Cardinality(OvflSlots(r)) <= 1

\* C7 (amended): while the writer keeps to its protocol, at most one slot of
\* an overflow type per reference.
ProtocolOneEntryPerReference == proto => OneEntryPerReference

\* C7 witness: under the protocol, reference 1 was found and reactivated in
\* a list that also holds a slot emptied by an earlier discard_track.
ProtocolOneEntryPerReferenceWitness ==
    /\ proto
    /\ 1 \in reused
    /\ Cardinality(OvflSlots(1)) = 1
    /\ \E i \in 1..track_next : track[i].type = WT_PT_EMPTY

\* The slots discard_track frees.
Eligible(t) ==
    {i \in 1..Len(t) : t[i].type \in {WT_PT_BLOCK, WT_PT_OVFL_DISCARD}}

\* C8: a discard_track that returns an error made its last call to
\* __wt_block_free for an eligible slot k, and that call failed; it freed
\* every eligible slot before k, in list order, and reset it; slot k and
\* all slots after it are as before.  No discard_track calls
\* __wt_block_free for a slot that is not eligible, and a discard_track
\* that follows a failed one starts at the slot that failed.
PartialFailure ==
    [][op' = "discard_track" =>
          /\ {callFreed'[m].idx : m \in 1..Len(callFreed')} \subseteq Eligible(track)
          /\ ret' # 0 =>
                LET n == Len(callFreed')
                    k == callFreed'[n].idx
                IN  /\ n >= 1
                    /\ ~callFreed'[n].ok
                    /\ \A m \in 1..(n - 1) : callFreed'[m].ok
                    /\ \A m \in 1..(n - 1) :
                          callFreed'[m].idx < callFreed'[m + 1].idx
                    /\ {callFreed'[m].idx : m \in 1..n}
                          = {i \in Eligible(track) : i <= k}
                    /\ \A m \in 1..n :
                          /\ callFreed'[m].addr = track[callFreed'[m].idx].addr
                          /\ callFreed'[m].size = track[callFreed'[m].idx].size
                    /\ \A i \in 1..track_next :
                          IF i \in Eligible(track) /\ i < k
                          THEN /\ track'[i].type = WT_PT_EMPTY
                               /\ track'[i].ref = NULL
                               /\ track'[i].addr = WT_ADDR_INVALID
                               /\ track'[i].size = 0
                          ELSE track'[i] = track[i]
          /\ (op = "discard_track" /\ ret # 0) =>
                /\ Len(callFreed') >= 1
                /\ callFreed'[1].idx = callFreed[Len(callFreed)].idx]_vars

\* C8 witness: __wt_block_free failed at the second eligible slot, with an
\* eligible slot after it.
PartialFailureWitness ==
    /\ op = "discard_track"
    /\ ret # 0
    /\ Len(callFreed) = 2
    /\ \E i \in Eligible(track) : i > callFreed[2].idx

\* C9: an ovfl_active call with a non-null reference whose first slot with
\* that reference is not WT_PT_OVFL_DISCARD fails the assertion: it returns
\* nothing, writes no addr or size and changes no slot.
FatalOnDoubleActive ==
    [][(op' = "ovfl_active" /\ arg'.ref # NULL) =>
          LET i == FirstWithRef(track, arg'.ref) IN
          (i # 0 /\ track[i].type # WT_PT_OVFL_DISCARD) =>
             /\ fatal'
             /\ ret' = ret
             /\ addrp' = WT_ADDR_INVALID
             /\ sizep' = 0
             /\ track' = track]_vars

\* C9 witness: the assertion failed on an active overflow item.
FatalOnDoubleActiveWitness ==
    /\ fatal
    /\ op = "ovfl_active"
    /\ track[FirstWithRef(track, arg.ref)].type = WT_PT_OVFL

\* C10 as claimed: when the calls come in passes, the assertion never fails.
NoAssertionInPasses == ~fatal

\* C10 (amended): when the calls come in passes and the writer keeps to its
\* protocol, the assertion never fails.
ProtocolNoAssertion == proto => ~fatal

\* C10 witness: under the protocol, ovfl_active found a reference in a list
\* of several slots and returned its addr and size.
ProtocolNoAssertionWitness ==
    /\ proto
    /\ ~fatal
    /\ op = "ovfl_active"
    /\ ret = 1
    /\ addrp # WT_ADDR_INVALID
    /\ track_next >= 2

\* C11: __wt_rec_track_ovfl_reset changes exactly the slots of type
\* WT_PT_OVFL, to WT_PT_OVFL_DISCARD; it calls __wt_block_free for nothing,
\* removes no slot, leaves track_next and track_entries alone, leaves the
\* ref, addr and size of every slot and every slot of another type
\* unchanged; a second reset right after the first changes nothing.
ResetFrame ==
    [][op' = "ovfl_reset" =>
          /\ callFreed' = <<>>
          /\ freeCount' = freeCount
          /\ track_next' = track_next
          /\ track_entries' = track_entries
          /\ Len(track') = Len(track)
          /\ \A i \in 1..Len(track) :
                track'[i] = IF track[i].type = WT_PT_OVFL
                            THEN [track[i] EXCEPT !.type = WT_PT_OVFL_DISCARD]
                            ELSE track[i]
          /\ (op = "ovfl_reset" => track' = track)]_vars

\* C11 witness: a reset has run on a list that holds an empty slot, a block
\* and a discarded overflow item.
ResetFrameWitness ==
    /\ op = "ovfl_reset"
    /\ track_next = 3
    /\ \E i, j, k \in 1..track_next :
          /\ track[i] = EmptyEntry
          /\ track[j].type = WT_PT_BLOCK
          /\ track[k].type = WT_PT_OVFL_DISCARD /\ track[k].ref # NULL

\* C12: no call other than __wt_rec_discard_track changes a WT_PT_BLOCK
\* slot, whatever __wt_rec_track_ovfl_active calls are made; a
\* discard_track in which every free succeeds frees each WT_PT_BLOCK slot
\* once, with its addr and size, and empties it.
BlockAlwaysSwept ==
    [][/\ op' # "discard_track" =>
             \A i \in 1..track_next :
                track[i].type = WT_PT_BLOCK => track'[i] = track[i]
       /\ (op' = "discard_track" /\ \A k \in 1..Len(callFreed') : callFreed'[k].ok) =>
             \A i \in 1..track_next :
                track[i].type = WT_PT_BLOCK =>
                   /\ track'[i] = EmptyEntry
                   /\ \E k \in 1..Len(callFreed') :
                         /\ CallsFor(callFreed', i) = {k}
                         /\ callFreed'[k].addr = track[i].addr
                         /\ callFreed'[k].size = track[i].size]_vars

\* C12 witness: in a pass that reactivated an overflow item, a successful
\* discard_track has freed a block and kept the reactivated item.
BlockAlwaysSweptWitness ==
    /\ proto /\ ~aliased
    /\ op = "discard_track" /\ ret = 0
    /\ reused # {}
    /\ \E k \in 1..Len(callFreed) :
          /\ callFreed[k].ok
          /\ owner[<<callFreed[k].addr, callFreed[k].size>>]
                = Object(WT_PT_BLOCK, NULL)
          /\ track[callFreed[k].idx] = EmptyEntry
    /\ \E i \in 1..track_next : track[i].type = WT_PT_OVFL

\* C14: a slot that is empty stays as it is under ovfl_reset, ovfl_active
\* and discard_track, and none of them calls __wt_block_free for it.
EmptyStaysEmpty ==
    [][op' \in {"ovfl_reset", "ovfl_active", "discard_track"} =>
          \A i \in 1..track_next :
             track[i] = EmptyEntry =>
                /\ track'[i] = EmptyEntry
                /\ CallsFor(callFreed', i) = {}]_vars

\* C14 witness: a discard_track has freed a later slot and passed over
\* slot 1, which an earlier discard_track had emptied.
EmptyStaysEmptyWitness ==
    /\ op = "discard_track"
    /\ track_next >= 2
    /\ track[1] = EmptyEntry
    /\ CallsFor(callFreed, 1) = {}
    /\ \E k \in 1..Len(callFreed) : callFreed[k].ok /\ callFreed[k].idx > 1

\* C17: only __wt_rec_discard_track calls __wt_block_free: a track,
\* ovfl_reset or ovfl_active call makes no free call, whatever it returns.
OnlyResolveFrees ==
    [][op' # "discard_track" =>
          /\ callFreed' = <<>>
          /\ freeCount' = freeCount]_vars

\* C17 witness: an ovfl_active call that found nothing has left a block and
\* a discarded overflow item in the list, with nothing freed so far.
OnlyResolveFreesWitness ==
    /\ op = "ovfl_active" /\ ret = 0 /\ ~fatal
    /\ callFreed = <<>>
    /\ \A l \in Locs : freeCount[l] = 0
    /\ \E i, j \in 1..track_next :
          /\ track[i].type = WT_PT_BLOCK
          /\ track[j].type = WT_PT_OVFL_DISCARD

\* C18: an ovfl_active call with a NULL reference, or with a reference no
\* slot holds, returns 0, changes no slot and writes neither *addrp nor
\* *sizep; an empty slot holds the NULL reference, so a non-NULL reference
\* does not match it.
NotFoundFrame ==
    [][/\ (op' = "ovfl_active"
             /\ (arg'.ref = NULL \/ RefSlots(track, arg'.ref) = {})) =>
             /\ ret' = 0
             /\ fatal' = fatal
             /\ track' = track
             /\ track_next' = track_next
             /\ track_entries' = track_entries
             /\ addrp' = WT_ADDR_INVALID
             /\ sizep' = 0
       /\ \A i \in 1..track_next' :
             track'[i].type = WT_PT_EMPTY => track'[i].ref = NULL]_vars

\* C18 witness: the overflow item of a reference was freed, and a later
\* ovfl_active call with that reference has found nothing in a list that
\* holds the emptied slot and another item.
NotFoundFrameWitness ==
    /\ op = "ovfl_active" /\ ret = 0 /\ ~fatal
    /\ arg.ref # NULL
    /\ ~aliased
    /\ \E l \in Locs : owner[l] = Object(WT_PT_OVFL, arg.ref) /\ freeCount[l] = 1
    /\ \E i, j \in 1..track_next :
          /\ track[i] = EmptyEntry
          /\ track[j].type # WT_PT_EMPTY

\* C19: track_next never decreases and only __wt_rec_track changes it; a
\* track call that returns 0 for a tuple the list does not hold writes the
\* tuple at slot track_next, adds one to track_next and leaves every other
\* slot, the empty ones included, as it was; every other track call leaves
\* the list alone.
AppendOnly ==
    [][/\ track_next' >= track_next
       /\ op' # "track" => track_next' = track_next
       /\ op' = "track" =>
             IF ret' = 0 /\ Count(track, arg') = 0
             THEN /\ track_next' = track_next + 1
                  /\ Len(track') = track_next'
                  /\ track'[track_next'] = arg'
                  /\ \A i \in 1..track_next : track'[i] = track[i]
             ELSE /\ track' = track
                  /\ track_next' = track_next]_vars

\* C19 witness: a track call has appended its tuple behind a slot that
\* discard_track had emptied.
AppendOnlyWitness ==
    /\ op = "track" /\ ret = 0
    /\ track_next >= 2
    /\ track[track_next] = arg
    /\ Count(track, arg) = 1
    /\ track[1] = EmptyEntry

\* C20: an ovfl_active call that finds its reference sets the type of the
\* first slot with that reference to WT_PT_OVFL and returns that slot's
\* addr and size; the slot's ref, addr and size and every other slot, the
\* later slots with the same reference included, are unchanged.
ReactivateOneEntry ==
    [][(op' = "ovfl_active" /\ ret' = 1 /\ ~fatal') =>
          LET i == FirstWithRef(track, arg'.ref) IN
          /\ i # 0
          /\ track' = [track EXCEPT ![i].type = WT_PT_OVFL]
          /\ addrp' = track[i].addr
          /\ sizep' = track[i].size
          /\ track_next' = track_next
          /\ track_entries' = track_entries]_vars

\* C20 witness: an ovfl_active call has made the first slot of its
\* reference active and left a later discarded slot of that reference.
ReactivateOneEntryWitness ==
    /\ op = "ovfl_active" /\ ret = 1 /\ ~fatal
    /\ \E i, j \in 1..track_next :
          /\ i < j
          /\ i = FirstWithRef(track, arg.ref)
          /\ track[i].type = WT_PT_OVFL
          /\ track[j].ref = arg.ref
          /\ track[j].type = WT_PT_OVFL_DISCARD
          /\ addrp = track[i].addr

\* C15: a track call fails only when the list is full and the allocation
\* fails; it then returns the allocation error, and track_next,
\* track_entries and every slot are as before, with no slot for the new
\* tuple and no free call.
AllocFailureAbandons ==
    [][(op' = "track" /\ ret' # 0) =>
          /\ ret' = ENOMEM
          /\ track_next = track_entries
          /\ track' = track
          /\ track_next' = track_next
          /\ track_entries' = track_entries
          /\ Count(track', arg') = 0
          /\ callFreed' = <<>>]_vars

\* C15 witness: the allocation has failed for a track call on a full list
\* of 20 slots, some emptied and some still holding a block.
AllocFailureAbandonsWitness ==
    /\ op = "track" /\ ret = ENOMEM
    /\ track_next = 20 /\ track_entries = 20
    /\ Len(track) = 20
    /\ track[1] = EmptyEntry
    /\ track[20].type = WT_PT_BLOCK

\* C16: track_next never exceeds track_entries; track_entries changes only
\* in a track call made when track_next = track_entries, and then by
\* exactly 20; a track call that returns 0 for a new tuple appends it, so
\* the blocks stand in the order of their registration (the i-th at slot
\* i) across the growth of the list; and a discard_track that returns 0
\* leaves every slot empty, each block freed exactly once.
GrowthCorrect ==
    [][/\ track_next' <= track_entries'
       /\ track_entries' # track_entries =>
             /\ op' = "track" /\ ret' = 0
             /\ track_next = track_entries
             /\ track_entries' = track_entries + 20
       /\ (op' = "track" /\ ret' = 0 /\ Count(track, arg') = 0) =>
             track' = Append(track, arg')
       /\ \A i \in 1..track_next' :
             track'[i] \in {EmptyEntry, Entry(WT_PT_BLOCK, NULL, i, 1)}
       /\ (op' = "discard_track" /\ ret' = 0) =>
             \A i \in 1..track_next' :
                /\ track'[i] = EmptyEntry
                /\ freeCount'[<<i, 1>>] = 1]_vars

\* C16 witness: 21 blocks were tracked from the empty list, the list grew
\* twice, and one discard_track has freed all 21.
GrowthCorrectWitness ==
    /\ op = "discard_track" /\ ret = 0
    /\ track_next = 21 /\ track_entries = 40
    /\ Len(callFreed) = 21
    /\ \A k \in 1..21 : callFreed[k].ok /\ callFreed[k].idx = k
                         /\ callFreed[k].addr = k

\* C13: while passes keep being run and the frees come to succeed, no
\* item stays in the list for ever unless it is reactivated: a WT_PT_BLOCK
\* slot is eventually freed and empty, a WT_PT_OVFL_DISCARD slot is
\* eventually freed and empty or reactivated, and a WT_PT_OVFL slot is
\* eventually discarded by the reset of the next pass (passes stop when a
\* WT_ASSERT fails).
EventualRelease ==
    \A i \in 1..MaxLive :
       /\ (i <= track_next /\ track[i].type = WT_PT_BLOCK)
             ~> (fatal \/ (i <= track_next /\ track[i] = EmptyEntry
                                           /\ \E l \in Locs : freeCount[l] > 0))
       /\ (i <= track_next /\ track[i].type = WT_PT_OVFL_DISCARD)
             ~> (fatal \/ (i <= track_next
                             /\ \/ track[i].type = WT_PT_OVFL
                                \/ /\ track[i] = EmptyEntry
                                   /\ \E l \in Locs : freeCount[l] > 0))
       /\ (i <= track_next /\ track[i].type = WT_PT_OVFL)
             ~> (fatal \/ (i <= track_next
                             /\ track[i].type = WT_PT_OVFL_DISCARD))

\* C13 witness: a discard_track has ended a pass with every slot empty, a
\* block and an overflow item freed, one of them by an earlier discard_track.
EventualReleaseWitness ==
    /\ phase = "idle" /\ op = "discard_track" /\ ret = 0
    /\ proto /\ ~aliased /\ ~fatal
    /\ track_next >= 2
    /\ \A i \in 1..track_next : track[i] = EmptyEntry
    /\ Len(callFreed) < track_next
    /\ \E l1, l2 \in Locs :
          /\ owner[l1] = Object(WT_PT_BLOCK, NULL) /\ freeCount[l1] = 1
          /\ owner[l2][1] = "overflow" /\ freeCount[l2] = 1

====
